---- MODULE Spec2Model ----
(***************************************************************************)
(* ISS tracker (src/src/main.js): the position feed (fetchIssPosition on a *)
(* 2000 ms interval), the Three.js custom layer (onAdd / loader callbacks  *)
(* / render) and the UI controls that share the status indicator.          *)
(*                                                                         *)
(* Numbers are JavaScript numbers in fixed point: a finite value is an     *)
(* integer count of tenths of a unit, and NaN, +Infinity and -Infinity are *)
(* separate values.  Strings are sequences of one-character strings.       *)
(***************************************************************************)
EXTENDS Integers, Sequences, FiniteSets

\* ------------------------------------------------------------------------
\* Bounds of the model
\* ------------------------------------------------------------------------

\* Number of fetches the model lets the feed issue (the code issues forever).
MaxIssued == 2

\* ------------------------------------------------------------------------
\* Program constants
\* ------------------------------------------------------------------------

\* setInterval(fetchIssPosition, 2000)
POLL_INTERVAL == 2000

\* const altitude = 800000
ALTITUDE == 800000

\* ------------------------------------------------------------------------
\* JavaScript numbers and strings
\* ------------------------------------------------------------------------

NaN == [k |-> "nan", v |-> 0]
PosInf == [k |-> "inf", v |-> 0]
NegInf == [k |-> "ninf", v |-> 0]
Undef == [k |-> "undef", v |-> 0]
Fin(n) == [k |-> "fin", v |-> n]

isNaN(x) == x.k = "nan"
IsFinite(x) == x.k = "fin"

Digits == <<"0", "1", "2", "3", "4", "5", "6", "7", "8", "9">>

IsDigit(c) == \E i \in 1..10 : Digits[i] = c

DigitVal(c) == (CHOOSE i \in 1..10 : Digits[i] = c) - 1

Drop(s, n) == SubSeq(s, n + 1, Len(s))

StartsWith(s, p) == Len(s) >= Len(p) /\ SubSeq(s, 1, Len(p)) = p

RECURSIVE TrimStart(_)
TrimStart(s) ==
    IF s # <<>> /\ s[1] \in {" ", "\t", "\n"} THEN TrimStart(Tail(s)) ELSE s

\* Length of the longest prefix of s made of decimal digits.
RECURSIVE DigitRun(_)
DigitRun(s) == IF s # <<>> /\ IsDigit(s[1]) THEN 1 + DigitRun(Tail(s)) ELSE 0

\* Value of a sequence of decimal digits.
RECURSIVE DigitsValue(_)
DigitsValue(ds) ==
    IF ds = <<>> THEN 0
    ELSE DigitsValue(SubSeq(ds, 1, Len(ds) - 1)) * 10 + DigitVal(ds[Len(ds)])

RECURSIVE Pow10(_)
Pow10(e) == IF e = 0 THEN 1 ELSE 10 * Pow10(e - 1)

\* Decimal digits of a natural number, most significant first.
RECURSIVE NatToString(_)
NatToString(n) ==
    IF n < 10 THEN <<Digits[n + 1]>>
    ELSE NatToString(n \div 10) \o <<Digits[(n % 10) + 1]>>

InfinityChars == <<"I", "n", "f", "i", "n", "i", "t", "y">>

\* Number::toString of a number (tenths): sign, integer part, and the
\* fraction digit when there is one.
NumberToString(x) ==
    CASE x.k = "nan" -> <<"N", "a", "N">>
      [] x.k = "inf" -> InfinityChars
      [] x.k = "ninf" -> <<"-">> \o InfinityChars
      [] OTHER ->
           LET a == IF x.v < 0 THEN 0 - x.v ELSE x.v
               sign == IF x.v < 0 THEN <<"-">> ELSE <<>>
               frac == IF a % 10 = 0 THEN <<>> ELSE <<".", Digits[(a % 10) + 1]>>
           IN sign \o NatToString(a \div 10) \o frac

\* A JSON value as a payload field carries it: absent (undefined), null, a
\* number or a string.
FieldUndefined == [t |-> "undefined", n |-> Undef, s |-> <<>>]
FieldNull == [t |-> "null", n |-> Undef, s |-> <<>>]
FieldNum(x) == [t |-> "number", n |-> x, s |-> <<>>]
FieldStr(cs) == [t |-> "string", n |-> Undef, s |-> cs]

\* JSToString(value), the first step of parseFloat.
JSToString(f) ==
    CASE f.t = "undefined" -> <<"u", "n", "d", "e", "f", "i", "n", "e", "d">>
      [] f.t = "null" -> <<"n", "u", "l", "l">>
      [] f.t = "number" -> NumberToString(f.n)
      [] OTHER -> f.s

\* The exponent part of a StrDecimalLiteral at the head of s: <<used, exp>>,
\* used = 0 when s does not start with a well-formed exponent.
ExponentPart(s) ==
    IF s = <<>> \/ ~(s[1] \in {"e", "E"}) THEN <<0, 0>>
    ELSE LET r == Tail(s)
             signed == r # <<>> /\ r[1] \in {"+", "-"}
             ds == IF signed THEN Tail(r) ELSE r
             n == DigitRun(ds)
             mag == DigitsValue(SubSeq(ds, 1, n))
         IN IF n = 0 THEN <<0, 0>>
            ELSE <<1, IF signed /\ r[1] = "-" THEN 0 - mag ELSE mag>>

\* parseFloat on a string: the longest prefix of the trimmed string that is
\* a StrDecimalLiteral, NaN when there is none.  Digits past the first
\* fraction digit are below the resolution of the fixed point.
ParseFloatString(s) ==
    LET t == TrimStart(s)
        signed == t # <<>> /\ t[1] \in {"+", "-"}
        neg == signed /\ t[1] = "-"
        u == IF signed THEN Tail(t) ELSE t
    IN IF StartsWith(u, InfinityChars) THEN (IF neg THEN NegInf ELSE PosInf)
       ELSE LET ni == DigitRun(u)
                afterInt == Drop(u, ni)
                dotted == afterInt # <<>> /\ afterInt[1] = "."
                fracSrc == IF dotted THEN Tail(afterInt) ELSE <<>>
                nf == DigitRun(fracSrc)
                rest == IF dotted THEN Drop(fracSrc, nf) ELSE afterInt
                ex == ExponentPart(rest)
                tenths == DigitsValue(SubSeq(u, 1, ni)) * 10
                          + (IF nf > 0 THEN DigitVal(fracSrc[1]) ELSE 0)
                scaled == IF ex[2] >= 0 THEN tenths * Pow10(ex[2])
                          ELSE tenths \div Pow10(0 - ex[2])
            IN IF ni + nf = 0 THEN NaN
               ELSE Fin(IF neg THEN 0 - scaled ELSE scaled)

parseFloat(f) == ParseFloatString(JSToString(f))

\* ------------------------------------------------------------------------
\* Responses the remote endpoint can give
\* ------------------------------------------------------------------------

Chars516 == <<"5", "1", ".", "6">>
CharsMinus01 == <<"-", "0", ".", "1">>
Chars12abc == <<"1", "2", "a", "b", "c">>
Chars7 == <<"7">>
CharsAbc == <<"a", "b", "c">>

\* What response.json() settles with: a JSON object with its latitude and
\* longitude members, the JSON literal null, or a rejection (invalid JSON).
Body(lat, lng) == [shape |-> "object", latitude |-> lat, longitude |-> lng]
BodyNull == [shape |-> "null", latitude |-> FieldUndefined, longitude |-> FieldUndefined]
BodyInvalid == [shape |-> "invalid", latitude |-> FieldUndefined, longitude |-> FieldUndefined]

Bodies ==
    { Body(FieldStr(Chars516), FieldStr(CharsMinus01)),
      Body(FieldNum(Fin(0)), FieldNum(Fin(0))),
      Body(FieldNum(Fin(950)), FieldStr(InfinityChars)),
      Body(FieldStr(Chars12abc), FieldStr(Chars7)),
      Body(FieldUndefined, FieldNum(Fin(50))),
      Body(FieldStr(CharsAbc), FieldNum(Fin(10))),
      BodyNull,
      BodyInvalid }

\* How the promise of fetch() settles.
FetchOutcomes == {"reject", "notok", "ok"}

\* event.key values handleKeydown can receive ("x": any unbound key).
Keys == {"Escape", "f", "r", "i", "x"}

\* ------------------------------------------------------------------------
\* Positions
\* ------------------------------------------------------------------------

Position(lng, lat) == [lng |-> lng, lat |-> lat]

\* issCustomLayer.issPosition before the first assignment.
NoPosition == Position(Undef, Undef)

\* { lng: 0, lat: 0 }
Origin == Position(Fin(0), Fin(0))

\* ------------------------------------------------------------------------
\* State
\* ------------------------------------------------------------------------

VARIABLES
    ISS_API_URL,      \* import.meta.env.VITE_ISS_API_URL: "undefined" or "url"
    configError,      \* console.error('ISS API URL not configured...') ran
    started,          \* the module script has run (listeners and timer set)
    now,              \* milliseconds since the script ran
    nextTick,         \* when the setInterval timer fires next
    reqs,             \* reqs[i]: where call i of fetchIssPosition stands
    issueLog,         \* issueLog[i]: the time fetch i was issued
    publishedIds,     \* the calls that reached the publishing assignment
    lastDone,         \* id of the call that completed last (0: none yet)
    lastPublished,    \* the position object the last publishing call built
    issPosition,      \* issCustomLayer.issPosition
    markerData,       \* coordinates of the 'iss-marker' source, if added
    statusDot,        \* status-dot class set by updateStatusIndicator
    statusText,       \* status text set by updateStatusIndicator
    isFollowingISS,
    panelOpen,
    loadTimer,        \* the setTimeout of initializeUI's load handler
    layerAdded,       \* onAdd has run
    loadState,        \* GLTFLoader.load: idle, loading, loaded, failed
    loadCalls,        \* number of loader.load calls made
    issModel,         \* this.issModel
    scene,            \* objects added to this.scene, in order
    modelMatrix,      \* this.issModel.matrix
    cubeMatrix,       \* this.testCube.matrix
    projectionMatrix, \* this.camera.projectionMatrix
    renderResult,     \* what the last render call did
    renderPos,        \* the position the last drawing render call used
    renderCam,        \* the camera matrix the last drawing render call got
    renderRepeated,   \* the last drawing render call had the same camera
                      \* matrix and position as the drawing call before it
    repaintPending    \* map.triggerRepaint() asked for a frame

feedVars == <<ISS_API_URL, configError, started, now, nextTick, reqs, issueLog, publishedIds, lastDone, lastPublished,
              issPosition, markerData>>
uiVars == <<statusDot, statusText, isFollowingISS, panelOpen, loadTimer>>
layerVars == <<layerAdded, loadState, loadCalls, issModel, scene>>
renderVars == <<modelMatrix, cubeMatrix, projectionMatrix, renderResult,
                renderPos, renderCam, renderRepeated>>
vars == <<feedVars, uiVars, layerVars, renderVars, repaintPending>>

\* ------------------------------------------------------------------------
\* THREE.Matrix4: 16 elements, column-major, as Matrix4.elements
\* ------------------------------------------------------------------------

Identity == <<1, 0, 0, 0,  0, 1, 0, 0,  0, 0, 1, 0,  0, 0, 0, 1>>

\* new THREE.Matrix4().fromArray(array)
FromArray(array) == [i \in 1..16 |-> array[i]]

\* Matrix4.makeTranslation(x, y, z)
MakeTranslation(x, y, z) ==
    <<1, 0, 0, 0,  0, 1, 0, 0,  0, 0, 1, 0,  x, y, z, 1>>

\* Matrix4.scale(v): the first three columns times v.x, v.y, v.z.
ScaleColumns(m, x, y, z) ==
    [i \in 1..16 |->
        CASE i \in 1..4 -> m[i] * x
          [] i \in 5..8 -> m[i] * y
          [] i \in 9..12 -> m[i] * z
          [] OTHER -> m[i]]

\* Matrix4.multiply(m): this x m.
Multiply(a, b) ==
    [i \in 1..16 |->
        LET row == ((i - 1) % 4) + 1
            col == ((i - 1) \div 4)
        IN a[row] * b[4 * col + 1] + a[row + 4] * b[4 * col + 2]
           + a[row + 8] * b[4 * col + 3] + a[row + 12] * b[4 * col + 4]]

\* Camera matrices the host hands to render.
CamA == <<2, 0, 0, 0,  0, 3, 0, 0,  0, 0, -1, -1,  1, 2, 0, 0>>
CamB == <<0, 1, 0, 0,  -1, 0, 0, 0,  0, 0, 2, 1,  0, 0, 3, 1>>
Cameras == {CamA, CamB}

\* ------------------------------------------------------------------------
\* mapboxgl.LngLat / MercatorCoordinate, on an integer grid: x, y, z in
\* 1e-8 mercator units, the meter scale in 1e-11 mercator units per meter.
\* ------------------------------------------------------------------------

\* LngLat's constructor throws on NaN and on a latitude outside [-90, 90].
LngLatThrows(p) ==
    \/ isNaN(p.lng) \/ isNaN(p.lat)
    \/ p.lat.k \in {"inf", "ninf"}
    \/ p.lat.k = "fin" /\ (p.lat.v > 900 \/ p.lat.v < -900)

\* mercatorXfromLng(lng) = (180 + lng) / 360
MercatorX(lng) == ((1800 + lng.v) * 250000) \div 9

\* mercatorYfromLat(lat), tabulated at the latitudes the responses carry.
MercatorY(lat) ==
    CASE lat.v = 0 -> 50000000
      [] lat.v = 516 -> 33211184
      [] lat.v = 120 -> 46642027

\* 1 / (earthCircumference * cos(lat)), tabulated likewise.
MeterScale(lat) ==
    CASE lat.v = 0 -> 2498
      [] lat.v = 516 -> 4022
      [] lat.v = 120 -> 2554

\* mercatorZfromAltitude(altitude, lat) = altitude * meter scale
MercatorZ(altitude, lat) == (altitude \div 1000) * MeterScale(lat)

\* MercatorCoordinate.fromLngLat(position, altitude) and
\* meterInMercatorCoordinateUnits(), as render's modelTransform.
ModelTransform(position, altitude) ==
    LET z == MercatorZ(altitude, position.lat)
    IN [translateX |-> MercatorX(position.lng),
        translateY |-> MercatorY(position.lat),
        translateZ |-> IF z = 0 THEN 0 ELSE z,
        scale |-> MeterScale(position.lat)]

\* A model matrix scaled by (s, s, s): the vertical axis not inverted.
ModelMatrixUnflipped(t) ==
    ScaleColumns(MakeTranslation(t.translateX, t.translateY, t.translateZ),
                 t.scale, t.scale, t.scale)

\* render's modelMatrix: makeTranslation(...).scale(s, -s, s)
ModelMatrix(t) ==
    ScaleColumns(MakeTranslation(t.translateX, t.translateY, t.translateZ),
                 t.scale, 0 - t.scale, t.scale)

\* A world matrix whose translation is added to the translation the object
\* already has, instead of replacing it.
WorldMatrixAccumulating(prev, matrix, position) ==
    LET m == Multiply(FromArray(matrix),
                      ModelMatrix(ModelTransform(position, ALTITUDE)))
    IN [i \in 1..16 |-> IF i \in 13..15 THEN m[i] + prev[i] ELSE m[i]]

\* The matrix render assigns to this.issModel.matrix and this.testCube.matrix
\* (prev: the object's old matrix, which the code does not read):
\* new THREE.Matrix4().fromArray(matrix).multiply(modelMatrix)
WorldMatrix(prev, matrix, position) ==
    Multiply(FromArray(matrix), ModelMatrix(ModelTransform(position, ALTITUDE)))

\* A render that always takes the nominal origin.
RenderPositionDefaultOnly(p) == Origin

\* const position = this.issPosition || { lng: 0, lat: 0 }
RenderPosition(p) == IF p = NoPosition THEN Origin ELSE p

\* ------------------------------------------------------------------------
\* Initial state: the page before the module script runs
\* ------------------------------------------------------------------------

NoSource == Position(Undef, Undef)

Init ==
    /\ ISS_API_URL \in {"undefined", "url"}
    /\ configError = FALSE
    /\ started = FALSE
    /\ now = 0
    /\ nextTick = 0
    /\ reqs = <<>>
    /\ issueLog = <<>>
    /\ publishedIds = {}
    /\ lastDone = 0
    /\ lastPublished = NoPosition
    /\ issPosition = NoPosition
    /\ markerData = NoSource
    /\ statusDot = "none"
    /\ statusText = ""
    /\ isFollowingISS = FALSE
    /\ panelOpen = FALSE
    /\ loadTimer = "unset"
    /\ layerAdded = FALSE
    /\ loadState = "idle"
    /\ loadCalls = 0
    /\ issModel = "undefined"
    /\ scene = <<>>
    /\ modelMatrix = Identity
    /\ cubeMatrix = Identity
    /\ projectionMatrix = Identity
    /\ renderResult = "none"
    /\ renderPos = NoPosition
    /\ renderCam = Identity
    /\ renderRepeated = FALSE
    /\ repaintPending = FALSE

\* ------------------------------------------------------------------------
\* The position feed
\* ------------------------------------------------------------------------

\* updateStatusIndicator(status, text)
updateStatusIndicator(status, text) ==
    /\ statusDot' = status
    /\ statusText' = text

\* The synchronous head of fetchIssPosition(): fetch(ISS_API_URL) is issued
\* and the call suspends on it.
IssueFetch ==
    /\ reqs' = Append(reqs, "fetch")
    /\ issueLog' = Append(issueLog, now)

\* The module script, top to bottom: if (!ISS_API_URL) console.error(...);
\* fetchIssPosition(); setInterval(...); initializeUI().
Main ==
    /\ ~started
    /\ started' = TRUE
    /\ configError' = (ISS_API_URL = "undefined")
    /\ UNCHANGED ISS_API_URL
    /\ IssueFetch
    /\ nextTick' = now + POLL_INTERVAL
    /\ updateStatusIndicator("connecting", "Connecting...")
    /\ UNCHANGED <<now, publishedIds, lastDone, lastPublished, issPosition, markerData>>
    /\ UNCHANGED <<isFollowingISS, panelOpen, loadTimer>>
    /\ UNCHANGED <<layerVars, renderVars, repaintPending>>

\* Time passes, up to the moment the interval timer is due: the timer fires
\* before time moves on.
TimeStep == POLL_INTERVAL

AdvanceTime ==
    /\ started
    /\ now < nextTick
    /\ now' = now + TimeStep
    /\ UNCHANGED <<ISS_API_URL, configError, started, nextTick, reqs, issueLog, publishedIds, lastDone, lastPublished,
                   issPosition, markerData>>
    /\ UNCHANGED <<uiVars, layerVars, renderVars, repaintPending>>

\* A tick that aborts the calls still in flight before issuing its own.
IntervalTickCancelling ==
    /\ started
    /\ now >= nextTick
    /\ Len(reqs) < MaxIssued
    /\ reqs' = Append([i \in 1..Len(reqs) |->
                          IF reqs[i] = "done" THEN "done" ELSE "cancelled"], "fetch")
    /\ issueLog' = Append(issueLog, now)
    /\ nextTick' = nextTick + POLL_INTERVAL
    /\ UNCHANGED <<ISS_API_URL, configError, started, now, publishedIds, lastDone, lastPublished, issPosition, markerData>>
    /\ UNCHANGED <<uiVars, layerVars, renderVars, repaintPending>>

\* A tick that issues nothing while an earlier call is in flight.
IntervalTickSkipping ==
    /\ started
    /\ now >= nextTick
    /\ Len(reqs) < MaxIssued
    /\ IF \E i \in 1..Len(reqs) : reqs[i] # "done"
       THEN UNCHANGED <<reqs, issueLog>>
       ELSE IssueFetch
    /\ nextTick' = nextTick + POLL_INTERVAL
    /\ UNCHANGED <<ISS_API_URL, configError, started, now, publishedIds, lastDone, lastPublished, issPosition, markerData>>
    /\ UNCHANGED <<uiVars, layerVars, renderVars, repaintPending>>

\* A tick that doubles the delay to the next one after a failed call.
IntervalTickBackoff ==
    /\ started
    /\ now >= nextTick
    /\ Len(reqs) < MaxIssued
    /\ IssueFetch
    /\ nextTick' = IF lastDone # 0 /\ lastDone \notin publishedIds
                   THEN nextTick + 2 * POLL_INTERVAL
                   ELSE nextTick + POLL_INTERVAL
    /\ UNCHANGED <<ISS_API_URL, configError, started, now, publishedIds, lastDone,
                   lastPublished, issPosition, markerData>>
    /\ UNCHANGED <<uiVars, layerVars, renderVars, repaintPending>>

\* The setInterval timer fires: fetchIssPosition() is called again.
IntervalTick ==
    /\ started
    /\ now >= nextTick
    /\ Len(reqs) < MaxIssued
    /\ IssueFetch
    /\ nextTick' = nextTick + POLL_INTERVAL
    /\ UNCHANGED <<ISS_API_URL, configError, started, now, publishedIds, lastDone, lastPublished, issPosition, markerData>>
    /\ UNCHANGED <<uiVars, layerVars, renderVars, repaintPending>>

\* Call id leaves fetchIssPosition (returns or is caught).
Complete(id, published) ==
    /\ reqs' = [reqs EXCEPT ![id] = "done"]
    /\ publishedIds' = IF published THEN publishedIds \cup {id} ELSE publishedIds
    /\ lastDone' = id

\* catch (error) { ...; updateStatusIndicator('error', 'Connection Error') }
Catch == updateStatusIndicator("error", "Connection Error")

\* await fetch(ISS_API_URL) settles: a rejection or a response that is not
\* ok throws into the catch block; an ok response goes on to response.json().
FetchSettle(id, net) ==
    /\ id \in 1..Len(reqs)
    /\ reqs[id] = "fetch"
    /\ IF net = "ok"
       THEN /\ reqs' = [reqs EXCEPT ![id] = "json"]
            /\ UNCHANGED <<publishedIds, lastDone, lastPublished, statusDot,
                           statusText>>
       ELSE /\ Complete(id, FALSE)
            /\ Catch
            /\ UNCHANGED lastPublished
    /\ UNCHANGED <<ISS_API_URL, configError, started, now, nextTick, issueLog, issPosition, markerData>>
    /\ UNCHANGED <<isFollowingISS, panelOpen, loadTimer>>
    /\ UNCHANGED <<layerVars, renderVars, repaintPending>>

\* A position built with the two members exchanged.
ParsedPositionSwapped(body) ==
    Position(parseFloat(body.latitude), parseFloat(body.longitude))

\* const issPosition = { lng: parseFloat(data.longitude),
\*                       lat: parseFloat(data.latitude) }
ParsedPosition(body) ==
    Position(parseFloat(body.longitude), parseFloat(body.latitude))

\* if (isNaN(issPosition.lng) || isNaN(issPosition.lat)) throw ...
InvalidCoordinates(p) == isNaN(p.lng) \/ isNaN(p.lat)

\* A publication that writes lng into the object already published and
\* leaves its lat.
PublishInPlace(cur, new) ==
    IF cur = NoPosition THEN new ELSE Position(new.lng, cur.lat)

\* issCustomLayer.issPosition = issPosition
Publish(cur, new) == new

\* await response.json() settles and the rest of the try block runs.
JsonSettle(id, body) ==
    /\ id \in 1..Len(reqs)
    /\ reqs[id] = "json"
    /\ LET p == ParsedPosition(body) IN
       IF body.shape # "object" \/ InvalidCoordinates(p)
       THEN /\ Complete(id, FALSE)
            /\ Catch
            /\ UNCHANGED <<issPosition, lastPublished, markerData, repaintPending>>
       ELSE /\ Complete(id, TRUE)
            /\ issPosition' = Publish(issPosition, p)
            /\ lastPublished' = p
            /\ markerData' = IF markerData # NoSource THEN p ELSE markerData
            /\ IF isFollowingISS /\ LngLatThrows(p)
               THEN \* map.easeTo throws on the center; the catch block runs
                    /\ Catch
                    /\ UNCHANGED repaintPending
               ELSE \* easeTo when following, updateISSInfo, then:
                    /\ updateStatusIndicator("connected", "ISS Connected")
                    /\ repaintPending' = TRUE
    /\ UNCHANGED <<ISS_API_URL, configError, started, now, nextTick, issueLog>>
    /\ UNCHANGED <<isFollowingISS, panelOpen, loadTimer>>
    /\ UNCHANGED <<layerVars, renderVars>>

\* ------------------------------------------------------------------------
\* The custom layer
\* ------------------------------------------------------------------------

\* map.on('load'): map.addLayer(issCustomLayer) runs onAdd (camera, scene,
\* lights, test cube, loader.load(...)), the marker source is added at
\* [0, 0], and initializeUI's load handler arms its 2000 ms timeout.
MapLoad ==
    /\ started
    /\ ~layerAdded
    /\ layerAdded' = TRUE
    /\ scene' = <<"ambientLight", "directionalLight", "testCube">>
    /\ loadState' = "loading"
    /\ loadCalls' = loadCalls + 1
    /\ markerData' = Origin
    /\ loadTimer' = "armed"
    /\ UNCHANGED <<ISS_API_URL, configError, started, now, nextTick, reqs, issueLog, publishedIds, lastDone, lastPublished,
                   issPosition>>
    /\ UNCHANGED <<statusDot, statusText, isFollowingISS, panelOpen>>
    /\ UNCHANGED <<issModel, renderVars, repaintPending>>

\* loader.load's success callback: this.issModel = gltf.scene; ...;
\* this.scene.add(this.issModel)
OnLoad ==
    /\ loadState = "loading"
    /\ loadState' = "loaded"
    /\ issModel' = "gltf"
    /\ scene' = Append(scene, "gltf")
    /\ UNCHANGED <<layerAdded, loadCalls>>
    /\ UNCHANGED <<feedVars, uiVars, renderVars, repaintPending>>

\* An error callback that starts the primary load again.
OnErrorRetrying ==
    /\ loadState = "loading"
    /\ loadCalls < 2
    /\ loadCalls' = loadCalls + 1
    /\ UNCHANGED <<layerAdded, loadState, issModel, scene>>
    /\ UNCHANGED <<feedVars, uiVars, renderVars, repaintPending>>

\* loader.load's error callback: this.issModel = this.createISSModel();
\* this.scene.add(this.issModel)
OnError ==
    /\ loadState = "loading"
    /\ loadState' = "failed"
    /\ issModel' = "procedural"
    /\ scene' = Append(scene, "procedural")
    /\ UNCHANGED <<layerAdded, loadCalls>>
    /\ UNCHANGED <<feedVars, uiVars, renderVars, repaintPending>>

\* A render without the early return on a missing model: it sets the test
\* cube's matrix and the camera, draws, and asks for the next frame.
RenderUnguarded(matrix) ==
    /\ layerAdded
    /\ LET position == RenderPosition(issPosition) IN
       IF LngLatThrows(position)
       THEN /\ renderResult' = "threw"
            /\ repaintPending' = FALSE
            /\ UNCHANGED <<modelMatrix, cubeMatrix, projectionMatrix,
                           renderPos, renderCam, renderRepeated>>
       ELSE /\ modelMatrix' = IF issModel = "undefined" THEN modelMatrix
                              ELSE WorldMatrix(modelMatrix, matrix, position)
            /\ cubeMatrix' = WorldMatrix(cubeMatrix, matrix, position)
            /\ projectionMatrix' = FromArray(matrix)
            /\ renderResult' = "drawn"
            /\ renderPos' = position
            /\ renderCam' = matrix
            /\ renderRepeated' = (renderCam = matrix /\ renderPos = position)
            /\ repaintPending' = TRUE
    /\ UNCHANGED <<feedVars, uiVars, layerVars>>

\* render(gl, matrix), called by the host for a frame.
Render(matrix) ==
    /\ layerAdded
    /\ IF issModel = "undefined"
       THEN /\ renderResult' = "skipped"
            /\ repaintPending' = FALSE
            /\ UNCHANGED <<modelMatrix, cubeMatrix, projectionMatrix, renderPos,
                           renderCam, renderRepeated>>
       ELSE LET position == RenderPosition(issPosition) IN
            IF LngLatThrows(position)
            THEN \* MercatorCoordinate.fromLngLat throws out of render
                 /\ renderResult' = "threw"
                 /\ repaintPending' = FALSE
                 /\ UNCHANGED <<modelMatrix, cubeMatrix, projectionMatrix,
                                renderPos, renderCam, renderRepeated>>
            ELSE /\ modelMatrix' = WorldMatrix(modelMatrix, matrix, position)
                 /\ cubeMatrix' = WorldMatrix(cubeMatrix, matrix, position)
                 /\ projectionMatrix' = FromArray(matrix)
                 /\ renderResult' = "drawn"
                 /\ renderPos' = position
                 /\ renderCam' = matrix
                 /\ renderRepeated' = (renderCam = matrix /\ renderPos = position)
                 /\ repaintPending' = TRUE
    /\ UNCHANGED <<feedVars, uiVars, layerVars>>

\* ------------------------------------------------------------------------
\* UI controls
\* ------------------------------------------------------------------------

\* The setTimeout callback of initializeUI's load handler.
LoadTimerFire ==
    /\ loadTimer = "armed"
    /\ loadTimer' = "fired"
    /\ updateStatusIndicator("connected", "ISS Connected")
    /\ UNCHANGED <<isFollowingISS, panelOpen>>
    /\ UNCHANGED <<feedVars, layerVars, renderVars, repaintPending>>

toggleInfoPanel ==
    /\ panelOpen' = ~panelOpen
    /\ UNCHANGED <<statusDot, statusText, isFollowingISS, loadTimer>>
    /\ UNCHANGED <<feedVars, layerVars, renderVars, repaintPending>>

toggleFollowISS ==
    /\ isFollowingISS' = ~isFollowingISS
    /\ IF ~isFollowingISS
       THEN updateStatusIndicator("connected", "Following ISS")
       ELSE updateStatusIndicator("connected", "ISS Connected")
    /\ UNCHANGED <<panelOpen, loadTimer>>
    /\ UNCHANGED <<feedVars, layerVars, renderVars, repaintPending>>

\* A view reset that also puts the layer's position back to the origin.
resetMapViewRepublishing ==
    /\ isFollowingISS' = FALSE
    /\ updateStatusIndicator("connected", "ISS Connected")
    /\ issPosition' = Origin
    /\ UNCHANGED <<panelOpen, loadTimer>>
    /\ UNCHANGED <<ISS_API_URL, configError, started, now, nextTick, reqs, issueLog,
                   publishedIds, lastDone, lastPublished, markerData>>
    /\ UNCHANGED <<layerVars, renderVars, repaintPending>>

resetMapView ==
    /\ isFollowingISS' = FALSE
    /\ updateStatusIndicator("connected", "ISS Connected")
    /\ UNCHANGED <<panelOpen, loadTimer>>
    /\ UNCHANGED <<feedVars, layerVars, renderVars, repaintPending>>

\* Clicks on menuToggle / closePanel, followISS, resetView.
ClickPanel == started /\ toggleInfoPanel
ClickFollow == started /\ toggleFollowISS
ClickReset == started /\ resetMapView

handleKeydown(key) ==
    /\ started
    /\ CASE key = "Escape" -> IF panelOpen THEN toggleInfoPanel ELSE UNCHANGED vars
         [] key \in {"f", "F"} -> toggleFollowISS
         [] key \in {"r", "R"} -> resetMapView
         [] key \in {"i", "I"} -> toggleInfoPanel
         [] OTHER -> UNCHANGED vars

\* ------------------------------------------------------------------------
\* Specification
\* ------------------------------------------------------------------------

\* What an ok response to fetch(url) can carry.  fetch(undefined) requests
\* the relative URL "undefined" from the page's own host, which is not the
\* position feed: whatever it answers is not a position object.
Responses(url) ==
    IF url = "undefined" THEN {body \in Bodies : body.shape # "object"} ELSE Bodies

Next ==
    \/ Main
    \/ AdvanceTime
    \/ IntervalTick
    \/ \E id \in 1..MaxIssued, net \in FetchOutcomes : FetchSettle(id, net)
    \/ \E id \in 1..MaxIssued, body \in Responses(ISS_API_URL) : JsonSettle(id, body)
    \/ MapLoad
    \/ OnLoad
    \/ OnError
    \/ \E matrix \in Cameras : Render(matrix)
    \/ LoadTimerFire
    \/ ClickPanel
    \/ ClickFollow
    \/ ClickReset
    \/ \E key \in Keys : handleKeydown(key)

Spec == Init /\ [][Next]_vars

\* ------------------------------------------------------------------------
\* What the claims mean by a numeric coordinate, read off the response
\* body itself: a finite JSON number, or a string that is, as a whole, a
\* plain decimal literal.
\* ------------------------------------------------------------------------

AllDigits(s) == \A i \in 1..Len(s) : IsDigit(s[i])

DotIndex(s) ==
    IF \E i \in 1..Len(s) : s[i] = "."
    THEN CHOOSE i \in 1..Len(s) : s[i] = "." /\ \A j \in 1..(i - 1) : s[j] # "."
    ELSE 0

Unsigned(s) == IF s # <<>> /\ s[1] \in {"+", "-"} THEN Tail(s) ELSE s

IntegerDigits(u) == IF DotIndex(u) = 0 THEN u ELSE SubSeq(u, 1, DotIndex(u) - 1)

FractionDigits(u) == IF DotIndex(u) = 0 THEN <<>> ELSE Drop(u, DotIndex(u))

IsDecimalString(s) ==
    LET u == Unsigned(s) IN
    /\ AllDigits(IntegerDigits(u))
    /\ AllDigits(FractionDigits(u))
    /\ Len(IntegerDigits(u)) + Len(FractionDigits(u)) > 0
    /\ Len(FractionDigits(u)) <= 1

DecimalStringValue(s) ==
    LET u == Unsigned(s)
        a == DigitsValue(IntegerDigits(u)) * 10
             + (IF FractionDigits(u) = <<>> THEN 0 ELSE DigitVal(FractionDigits(u)[1]))
    IN IF s[1] = "-" THEN 0 - a ELSE a

IsNumericField(f) ==
    \/ f.t = "number" /\ f.n.k = "fin"
    \/ f.t = "string" /\ IsDecimalString(f.s)

NumericFieldValue(f) == IF f.t = "number" THEN f.n.v ELSE DecimalStringValue(f.s)

\* A field that is missing, or present and not numeric.  The string "Infinity"
\* converts to a number without remainder and is not counted here.
IsMissingOrNonNumeric(f) ==
    \/ f.t \in {"undefined", "null"}
    \/ f.t = "string" /\ ~IsDecimalString(f.s) /\ Unsigned(f.s) # InfinityChars

WithinBounds(p) ==
    /\ IsFinite(p.lat) /\ p.lat.v >= -900 /\ p.lat.v <= 900
    /\ IsFinite(p.lng) /\ p.lng.v >= -1800 /\ p.lng.v <= 1800

\* A response body with numeric coordinates in range, and what it carries.
IsValidBody(body) ==
    /\ body.shape = "object"
    /\ IsNumericField(body.latitude)
    /\ IsNumericField(body.longitude)
    /\ WithinBounds(Position(Fin(NumericFieldValue(body.longitude)),
                             Fin(NumericFieldValue(body.latitude))))

CarriedPosition(body) ==
    Position(Fin(NumericFieldValue(body.longitude)),
             Fin(NumericFieldValue(body.latitude)))

\* A response body with a latitude or longitude that is missing or
\* non-numeric.
IsFailureBody(body) ==
    /\ body.shape = "object"
    /\ \/ IsMissingOrNonNumeric(body.latitude)
       \/ IsMissingOrNonNumeric(body.longitude)

ValidBodies == {body \in Bodies : IsValidBody(body)}

FailureBodies == {body \in Bodies : IsFailureBody(body)}

\* A step in which a call of fetchIssPosition completes.
PollCompletes == lastDone' # lastDone

\* ------------------------------------------------------------------------
\* Claims
\* ------------------------------------------------------------------------

\* C1: the published position is either not yet published or has finite
\* lat in [-90, 90] and finite lng in [-180, 180].
C1_PublishedWithinBounds == issPosition = NoPosition \/ WithinBounds(issPosition)

\* C2: a poll that ends in a fetch failure (rejection, non-ok response, or a
\* latitude or longitude that is missing or non-numeric) leaves the published
\* position as it was and leaves the status 'error'.
C2_FailureKeepsPosition ==
    [][PollCompletes =>
         /\ \A net \in {"reject", "notok"} :
              FetchSettle(lastDone', net)
                => (issPosition' = issPosition /\ statusDot' = "error")
         /\ \A body \in FailureBodies :
              JsonSettle(lastDone', body)
                => (issPosition' = issPosition /\ statusDot' = "error")]_vars

\* C3: a poll whose response is ok and carries numeric (number or numeric
\* string) coordinates in range publishes exactly those coordinates and
\* sets the status 'connected'.
C3_ValidPollPublishes ==
    [][PollCompletes =>
         \A body \in ValidBodies :
            JsonSettle(lastDone', body)
              => (issPosition' = CarriedPosition(body) /\ statusDot' = "connected")]_vars

C3_Witness ==
    /\ lastDone \in publishedIds
    /\ issPosition = Position(Fin(-1), Fin(516))
    /\ statusDot = "connected"
    /\ isFollowingISS

\* C4: the first fetch is issued at time 0 and one more at every 2000 ms
\* tick, whether or not earlier fetches are still in flight.
C4_IssueSchedule ==
    started =>
        /\ Len(issueLog) >= 1
        /\ \A i \in 1..Len(issueLog) : issueLog[i] = (i - 1) * 2000
        /\ nextTick = Len(issueLog) * 2000
        /\ now <= nextTick

C4_Witness ==
    /\ Len(issueLog) >= 2
    /\ issueLog[2] = 2000
    /\ reqs[1] # "done"
    /\ reqs[2] = "fetch"

\* C5: no issued fetch is cancelled or discarded, and whenever a successful
\* response completes its position becomes the published one, whether or not
\* a later-issued call has already completed.
C5_LastCompletionWins ==
    [][/\ \A i \in 1..Len(reqs') : reqs'[i] \in {"fetch", "json", "done"}
       /\ PollCompletes =>
            \A body \in ValidBodies :
               JsonSettle(lastDone', body) => issPosition' = CarriedPosition(body)
       /\ issPosition' # issPosition => PollCompletes]_vars

C5_Witness ==
    /\ publishedIds = {1, 2}
    /\ lastDone = 1
    /\ issPosition = Position(Fin(-1), Fin(516))

\* C6: a render call that draws uses exactly the position object of the most
\* recent publication (the origin before any), never a mix of two.
C6_RenderReadsWholePublication ==
    [][(renderVars' # renderVars /\ renderResult' = "drawn")
        => renderPos' = (IF lastPublished = NoPosition THEN Origin ELSE lastPublished)]_vars

C6_Witness ==
    /\ renderResult = "drawn"
    /\ publishedIds = {1, 2}
    /\ renderPos = lastPublished
    /\ renderPos # Origin

\* C7: readiness leaves 'loading' at most once, the ready state reached is
\* kept, the fallback is entered only on a reported load failure, and the
\* primary load is started at most once.
C7_ReadinessSettlesOnce ==
    [][/\ issModel # "undefined" => issModel' = issModel
       /\ (issModel' = "procedural" /\ issModel # "procedural")
            => (loadState = "loading" /\ loadState' = "failed")
       /\ (issModel' = "gltf" /\ issModel # "gltf")
            => (loadState = "loading" /\ loadState' = "loaded")
       /\ loadCalls' <= 1]_vars

C7_Witness ==
    /\ issModel = "procedural"
    /\ loadState = "failed"
    /\ loadCalls = 1
    /\ renderResult = "drawn"

\* C8: after a failed primary load the fallback is in the scene exactly once
\* and no later render call throws.
C8_FallbackRendersWithoutThrowing ==
    loadState = "failed" =>
        /\ issModel = "procedural"
        /\ Cardinality({i \in 1..Len(scene) : scene[i] = "procedural"}) = 1
        /\ renderResult # "threw"

\* C9: a render call with the same camera matrix and the same position as
\* the previous drawing call assigns the same matrices again.
C9_RenderDeterministic ==
    [][(renderResult' = "drawn" /\ renderRepeated')
        => (modelMatrix' = modelMatrix /\ cubeMatrix' = cubeMatrix
            /\ projectionMatrix' = projectionMatrix)]_vars

C9_Witness ==
    /\ renderResult = "drawn"
    /\ renderRepeated
    /\ renderCam = CamB
    /\ renderPos = Position(Fin(-1), Fin(516))
    /\ modelMatrix # Identity
    /\ repaintPending

\* Matrix algebra written out entry by entry (row r, column c, from 1).
Entry(m, r, c) == m[4 * (c - 1) + r]

MatrixProduct(a, b) ==
    [i \in 1..16 |->
        LET r == ((i - 1) % 4) + 1
            c == ((i - 1) \div 4) + 1
        IN Entry(a, r, 1) * Entry(b, 1, c) + Entry(a, r, 2) * Entry(b, 2, c)
           + Entry(a, r, 3) * Entry(b, 3, c) + Entry(a, r, 4) * Entry(b, 4, c)]

TranslationMatrix(x, y, z) ==
    [i \in 1..16 |->
        CASE i \in {1, 6, 11, 16} -> 1
          [] i = 13 -> x
          [] i = 14 -> y
          [] i = 15 -> z
          [] OTHER -> 0]

ScalingMatrix(x, y, z) ==
    [i \in 1..16 |->
        CASE i = 1 -> x
          [] i = 6 -> y
          [] i = 11 -> z
          [] i = 16 -> 1
          [] OTHER -> 0]

\* C10: on a drawn frame the model's world matrix is
\* cameraMatrix o translate(project(position, 800000)) o scale(s, -s, s) and
\* the camera's projection matrix is cameraMatrix.
C10_WorldMatrixComposition ==
    renderResult = "drawn" =>
        LET t == ModelTransform(renderPos, 800000)
            s == t.scale
        IN /\ modelMatrix =
                MatrixProduct(renderCam,
                    MatrixProduct(TranslationMatrix(t.translateX, t.translateY,
                                                    t.translateZ),
                                  ScalingMatrix(s, 0 - s, s)))
           /\ projectionMatrix = renderCam

C10_Witness ==
    /\ renderResult = "drawn"
    /\ renderCam = CamA
    /\ renderPos = Position(Fin(-1), Fin(516))
    /\ projectionMatrix = CamA
    /\ modelMatrix[13] = 2 * MercatorX(Fin(-1)) + 1

\* A step in which a call of fetchIssPosition completes having published.
PollPublishes == PollCompletes /\ lastDone' \in publishedIds'

\* C11: after every poll that publishes, the coordinates of the 'iss-marker'
\* source are [lng, lat] of the position just published, also when the poll
\* completes before the map's load event has added the source.
C11_MarkerFollowsPublication ==
    [][PollPublishes => markerData' = lastPublished']_vars

\* C12: when ISS_API_URL is absent at startup the diagnostic is logged and
\* no fetch is ever issued, neither by the first call nor by a timer tick.
C12_NoFetchWithoutEndpoint ==
    (started /\ ISS_API_URL = "undefined") => (configError /\ reqs = <<>>)

\* A step taken by one of the user's controls: a click on the panel, follow
\* or reset buttons, or a key.
ControlAction ==
    ClickPanel \/ ClickFollow \/ ClickReset \/ \E key \in Keys : handleKeydown(key)

\* C13: no control action (follow toggle, view reset, panel toggle, keyboard
\* shortcut) changes the status indicator's state or label.
C13_ControlsLeaveStatus ==
    [][ControlAction => (statusDot' = statusDot /\ statusText' = statusText)]_vars

\* A step in which the host calls render.
RenderCall == \E matrix \in Cameras : Render(matrix)

\* C14: the published position changes only in a step in which a poll
\* completes through the publishing assignment; render calls and the
\* controls (follow toggle, view reset, panel toggle, keys) leave it as it is.
C14_OnlyPollsPublish ==
    [][issPosition' # issPosition
         => (PollPublishes /\ ~RenderCall /\ ~ControlAction)]_vars

C14_Witness ==
    /\ issPosition = Position(Fin(-1), Fin(516))
    /\ renderResult = "drawn"
    /\ renderPos = issPosition
    /\ panelOpen
    /\ isFollowingISS
    /\ statusText = "Following ISS"

\* C15: a render call made while the model is not yet loaded draws nothing,
\* assigns no matrix, asks for no further frame and does not throw; the
\* published position and the readiness state are unchanged by it.
C15_RenderBeforeModelSkips ==
    [][(issModel = "undefined" /\ RenderCall)
         => /\ renderResult' = "skipped"
            /\ UNCHANGED <<modelMatrix, cubeMatrix, projectionMatrix>>
            /\ ~repaintPending'
            /\ UNCHANGED <<issPosition, loadState, issModel>>]_vars

C15_Witness ==
    /\ loadState = "loading"
    /\ renderResult = "skipped"
    /\ issPosition = Position(PosInf, Fin(950))
    /\ modelMatrix = Identity
    /\ ~repaintPending

\* C16: in every poll completion that replaces the published position, the
\* status at the end of that step is 'connected'; no completion leaves the
\* position replaced and the status 'error'.
C16_PublicationSetsConnected ==
    [][PollPublishes => statusDot' = "connected"]_vars

\* The call that completed last ended in the catch block without publishing.
LastPollFailed == lastDone # 0 /\ lastDone \notin publishedIds

\* C17: a failed poll leaves the timer as it is; the fetch after the n-th is
\* issued at tick n * 2000 and time does not pass a tick without it, whatever
\* failed before; and a poll with a valid response that completes after a
\* failed one publishes its position and sets the status 'connected'.
C17_FailuresKeepLoop ==
    [][/\ (PollCompletes /\ ~PollPublishes) => UNCHANGED <<started, nextTick, issueLog>>
       /\ (started /\ Len(issueLog') > Len(issueLog))
            => /\ issueLog' = Append(issueLog, POLL_INTERVAL * Len(issueLog))
               /\ nextTick' = nextTick + POLL_INTERVAL
       /\ now' # now => now' <= nextTick'
       /\ (LastPollFailed /\ PollCompletes) =>
            \A body \in ValidBodies :
               JsonSettle(lastDone', body)
                 => (issPosition' = CarriedPosition(body) /\ statusDot' = "connected")]_vars

C17_Witness ==
    /\ reqs = <<"done", "done">>
    /\ issueLog = <<0, 2000>>
    /\ publishedIds = {2}
    /\ lastDone = 2
    /\ issPosition = Position(Fin(0), Fin(0))
    /\ statusDot = "connected"

\* C18: every render call made while a model is ready draws the scene with
\* the position published at that time and then asks the host for another
\* frame.
C18_ReadyRenderDrawsAndRepaints ==
    [][(issModel # "undefined" /\ RenderCall)
         => /\ renderResult' = "drawn"
            /\ renderPos' = RenderPosition(issPosition)
            /\ repaintPending']_vars

\* C19: a render call that draws before any publication uses the origin
\* {lng: 0, lat: 0}; once a position has been published, a render call uses
\* the origin only if the origin is the published position.
C19_OriginOnlyBeforePublication ==
    [][(renderVars' # renderVars /\ renderResult' = "drawn")
         => /\ publishedIds = {} => renderPos' = Origin
            /\ (publishedIds # {} /\ renderPos' = Origin) => issPosition = Origin]_vars

C19_Witness ==
    /\ publishedIds = {}
    /\ lastDone = 2
    /\ issPosition = NoPosition
    /\ renderResult = "drawn"
    /\ renderPos = Origin
    /\ renderCam = CamB

\* C20: the status is 'connected' only if at least one poll has published,
\* and once it is 'error' it stays 'error' until a poll publishes, whatever
\* the map-load timer, the follow toggle and the view reset do in between.
C20_StatusReflectsLastPoll ==
    [][/\ statusDot' = "connected" => publishedIds' # {}
       /\ (statusDot = "error" /\ statusDot' # "error") => PollPublishes]_vars

\* A step in which a load callback makes the model ready.
ModelBecomesReady == issModel = "undefined" /\ issModel' # "undefined"

\* C21: every poll completion that publishes asks the host for a repaint
\* (map.triggerRepaint()), and neither load callback asks for one: a step
\* that makes the model ready leaves the repaint request as it was.
C21_PublicationRequestsRepaint ==
    [][/\ PollPublishes => repaintPending'
       /\ ModelBecomesReady => repaintPending' = repaintPending]_vars

====
